---------------------------- MODULE Spec2Model ----------------------------
(***************************************************************************)
(* Model of two scripts of the repository.                                 *)
(*                                                                         *)
(*   src/demo.py              find_most_similar_images / main: load every  *)
(*                            file of a directory, compute one feature     *)
(*                            vector per loaded image, brute-force search  *)
(*                            of the pair of smallest Euclidean distance.  *)
(*   src/scrap_ld_snapshot.py read the .webloc files of a folder, visit    *)
(*                            every link and save one screenshot per link. *)
(*                                                                         *)
(* Python lists are sequences; Python's 0-based indices i are the model's  *)
(* 1-based i+1.  A path is identified with the position of its entry in    *)
(* the directory listing.  A feature vector is a sequence of integers (the *)
(* quantised components), a floating-point distance is the fixed-point     *)
(* number Floor(10 * sqrt(x)).                                             *)
(***************************************************************************)
EXTENDS Integers, Sequences, FiniteSets, TLC

VARIABLES
    \* ---- src/demo.py
    files,              \* what os.listdir(image_dir) returns, in order
    pc,                 \* position in find_most_similar_images / main
    image_paths,        \* demo.py:69
    k,                  \* position of `for path in image_paths`, demo.py:76
    hog_data,           \* demo.py:75
    num_images,         \* demo.py:83
    min_similarity,     \* demo.py:88
    most_similar_pair,  \* demo.py:89, <<>> is None
    todo,               \* what itertools.combinations has still to yield
    calls,              \* history: the argument pairs of calculate_similarity
    result,             \* how find_most_similar_images ended
    vis_called,         \* main called visualize_results
    shown,              \* the two paths visualize_results printed
    run,                \* which call of find_most_similar_images this is
    prev,               \* the result and item list of the previous call
    \* ---- src/scrap_ld_snapshot.py
    folder,             \* what os.listdir(WEBLOCS_FOLDER) returns, in order
    spc,                \* position in the __main__ block
    fidx,               \* position of `for filename in os.listdir(...)`
    links,              \* scrap_ld_snapshot.py:44
    lidx,               \* position of `for link in links`
    attempts,           \* history: the links get_ld_snapshot was called with
    shots,              \* history: the screenshots saved, with their link
    browser             \* the webdriver.Chrome context manager

dvars == <<files, pc, image_paths, k, hog_data, num_images, min_similarity,
           most_similar_pair, todo, calls, result, vis_called, shown, run, prev>>
svars == <<folder, spc, fidx, links, lidx, attempts, shots, browser>>
vars  == <<dvars, svars>>

-----------------------------------------------------------------------------
(* Bounds of the model.                                                    *)

MaxFiles == 3       \* entries of the image directory
MaxDim == 2         \* length of a feature vector
MaxFolder == 2      \* entries of the .webloc folder
MaxLinkLen == 3     \* characters of a URL

\* The values a quantised feature component takes.
Components == {0, 1}

\* All sequences over S of length lo..hi.
SeqsOf(S, lo, hi) == UNION {[1..n -> S] : n \in lo..hi}

\* What the feature extractor may hand to the search: the search takes the
\* vectors as they come and never looks at how they were made.
Vectors == SeqsOf(Components, 0, MaxDim)

-----------------------------------------------------------------------------
(* src/demo.py                                                             *)

\* float('inf'): above every distance the model can produce.
Inf == 1000000

None == <<>>

\* One entry of the directory: a sub-directory, a file that vanished before
\* it is read (FileNotFoundError), a file whose reading or processing fails
\* in any other way, or an image with its feature vector.
DirEntries ==
    [kind : {"dir", "notfound", "error"}, feat : {<<>>}]
        \cup [kind : {"ok"}, feat : Vectors]

\* os.path.isfile
isfile(f) == f.kind # "dir"

\* [os.path.join(image_dir, f) for f in os.listdir(image_dir) if isfile(...)]
RECURSIVE ListFiles(_, _)
ListFiles(fs, n) ==
    IF n > Len(fs) THEN <<>>
    ELSE (IF isfile(fs[n]) THEN <<n>> ELSE <<>>) \o ListFiles(fs, n + 1)

\* load_and_preprocess_image: "None" after the FileNotFoundError it catches,
\* "raise" for any other failure (io.imread of a file that is no image,
\* image.shape[2] of a two-dimensional image), else the image.
load_and_preprocess_image(f) ==
    CASE f.kind = "notfound" -> "None"
      [] f.kind = "error"    -> "raise"
      [] OTHER               -> "image"

\* `if image is None`, demo.py:78
IsNoneAlways(image) == FALSE
IsNone(image) == image = "None"

\* compute_hog_features: the feature vector of the image
compute_hog_features(f) == f.feat

\* `if num_images < 2`, demo.py:84
NotEnough(n) == n < 2

\* itertools.combinations(range(n), 2): the pairs i < j in lexicographic order
RECURSIVE PairsFrom(_, _, _)
PairsFrom(i, j, n) ==
    IF i >= n THEN <<>>
    ELSE IF j > n THEN PairsFrom(i + 1, i + 2, n)
    ELSE <<<<i, j>>>> \o PairsFrom(i, j + 1, n)

\* Neighbours only: (1,2), (2,3), ...
CombinationsAdjacent(n) == [m \in 1..(n - 1) |-> <<m, m + 1>>]

\* itertools.permutations(range(n), 2): both orders of every pair
RECURSIVE PermsFrom(_, _, _)
PermsFrom(i, j, n) ==
    IF i > n THEN <<>>
    ELSE IF j > n THEN PermsFrom(i + 1, 1, n)
    ELSE (IF i # j THEN <<<<i, j>>>> ELSE <<>>) \o PermsFrom(i, j + 1, n)
CombinationsBothOrders(n) == PermsFrom(1, 1, n)

Combinations(n) == PairsFrom(1, 2, n)

\* numpy's `u - v` inside scipy's distance.euclidean: equal lengths, or one
\* operand of length 1, which is stretched to the length of the other; any
\* other two lengths are a ValueError.
Broadcastable(u, v) == Len(u) = Len(v) \/ Len(u) = 1 \/ Len(v) = 1

BroadcastLen(u, v) == IF Len(u) = 1 THEN Len(v) ELSE Len(u)

At(u, n) == IF Len(u) = 1 THEN u[1] ELSE u[n]

RECURSIVE SumSq(_, _, _)
SumSq(u, v, n) ==
    IF n = 0 THEN 0
    ELSE (At(u, n) - At(v, n)) * (At(u, n) - At(v, n)) + SumSq(u, v, n - 1)

\* sqrt, one decimal kept
Sqrt(x) == CHOOSE r \in 0..(10 * x) :
               r * r <= 100 * x /\ (r + 1) * (r + 1) > 100 * x

\* calculate_similarity: the Euclidean distance, or the ValueError
calculate_similarity(u, v) ==
    IF Broadcastable(u, v)
    THEN [raise |-> FALSE, val |-> Sqrt(SumSq(u, v, BroadcastLen(u, v)))]
    ELSE [raise |-> TRUE, val |-> 0]

\* `if similarity < min_similarity`, demo.py:93
SmallerOrEqual(similarity, m) == similarity <= m
Smaller(similarity, m) == similarity < m

\* min_similarity = float('inf'), demo.py:88: a fresh accumulator per call
LeftOver(old) == old
StartMin(old) == Inf

Pending == [kind |-> "pending", min |-> 0, pair |-> None]

ReturnNone == [kind |-> "None", min |-> 0, pair |-> None]

Raised == [kind |-> "raise", min |-> 0, pair |-> None]

\* `if results`, demo.py:149: None is false, a 3-tuple is true
Truthy(r) == r.kind = "tuple"

NoScraper ==
    /\ folder = <<>> /\ spc = "off" /\ fidx = 0 /\ links = <<>>
    /\ lidx = 0 /\ attempts = <<>> /\ shots = <<>> /\ browser = "off"

Init ==
    /\ files \in SeqsOf(DirEntries, 0, MaxFiles)
    /\ pc = "listdir"
    /\ image_paths = <<>>
    /\ k = 0
    /\ hog_data = <<>>
    /\ num_images = 0
    /\ min_similarity = Inf
    /\ most_similar_pair = None
    /\ todo = <<>>
    /\ calls = <<>>
    /\ result = Pending
    /\ vis_called = FALSE
    /\ shown = <<>>
    /\ run = 1
    /\ prev = <<>>
    /\ NoScraper

\* demo.py:69-73, a directory with no file in it
ListDirEmpty ==
    /\ pc = "listdir"
    /\ ListFiles(files, 1) = <<>>
    /\ image_paths' = <<>>
    /\ result' = ReturnNone
    /\ pc' = "main"
    /\ UNCHANGED <<files, k, hog_data, num_images, min_similarity,
                   most_similar_pair, todo, calls, vis_called, shown, run, prev>>
    /\ UNCHANGED svars

\* demo.py:69-75
ListDir ==
    /\ pc = "listdir"
    /\ ListFiles(files, 1) # <<>>
    /\ image_paths' = ListFiles(files, 1)
    /\ hog_data' = <<>>
    /\ k' = 1
    /\ pc' = "load"
    /\ UNCHANGED <<files, num_images, min_similarity, most_similar_pair,
                   todo, calls, result, vis_called, shown, run, prev>>
    /\ UNCHANGED svars

\* demo.py:76-79, the image is None: continue
LoadSkip ==
    /\ pc = "load"
    /\ k <= Len(image_paths)
    /\ load_and_preprocess_image(files[image_paths[k]]) # "raise"
    /\ IsNone(load_and_preprocess_image(files[image_paths[k]]))
    /\ k' = k + 1
    /\ UNCHANGED <<files, pc, image_paths, hog_data, num_images,
                   min_similarity, most_similar_pair, todo, calls, result,
                   vis_called, shown, run, prev>>
    /\ UNCHANGED svars

\* demo.py:76-81
LoadAppend ==
    /\ pc = "load"
    /\ k <= Len(image_paths)
    /\ load_and_preprocess_image(files[image_paths[k]]) # "raise"
    /\ ~IsNone(load_and_preprocess_image(files[image_paths[k]]))
    /\ hog_data' = Append(hog_data,
                          [features |-> compute_hog_features(files[image_paths[k]]),
                           path |-> image_paths[k]])
    /\ k' = k + 1
    /\ UNCHANGED <<files, pc, image_paths, num_images, min_similarity,
                   most_similar_pair, todo, calls, result, vis_called, shown,
                   run, prev>>
    /\ UNCHANGED svars

\* demo.py:77, an exception load_and_preprocess_image does not catch leaves
\* find_most_similar_images and main
LoadRaise ==
    /\ pc = "load"
    /\ k <= Len(image_paths)
    /\ load_and_preprocess_image(files[image_paths[k]]) = "raise"
    /\ result' = Raised
    /\ pc' = "crashed"
    /\ UNCHANGED <<files, image_paths, k, hog_data, num_images,
                   min_similarity, most_similar_pair, todo, calls, vis_called,
                   shown, run, prev>>
    /\ UNCHANGED svars

\* demo.py:83-86
TooFew ==
    /\ pc = "load"
    /\ k > Len(image_paths)
    /\ NotEnough(Len(hog_data))
    /\ num_images' = Len(hog_data)
    /\ result' = ReturnNone
    /\ pc' = "main"
    /\ UNCHANGED <<files, image_paths, k, hog_data, min_similarity,
                   most_similar_pair, todo, calls, vis_called, shown, run, prev>>
    /\ UNCHANGED svars

\* demo.py:83-91
StartSearch ==
    /\ pc = "load"
    /\ k > Len(image_paths)
    /\ ~NotEnough(Len(hog_data))
    /\ num_images' = Len(hog_data)
    /\ min_similarity' = StartMin(min_similarity)
    /\ most_similar_pair' = None
    /\ todo' = Combinations(Len(hog_data))
    /\ pc' = "search"
    /\ UNCHANGED <<files, image_paths, k, hog_data, calls, result,
                   vis_called, shown, run, prev>>
    /\ UNCHANGED svars

\* demo.py:91-95, one pair
Compare ==
    /\ pc = "search"
    /\ todo # <<>>
    /\ LET i == Head(todo)[1]
           j == Head(todo)[2]
           s == calculate_similarity(hog_data[i].features, hog_data[j].features)
       IN  /\ ~s.raise
           /\ calls' = Append(calls, <<i, j>>)
           /\ IF Smaller(s.val, min_similarity)
              THEN /\ min_similarity' = s.val
                   /\ most_similar_pair' = <<i, j>>
              ELSE UNCHANGED <<min_similarity, most_similar_pair>>
    /\ todo' = Tail(todo)
    /\ UNCHANGED <<files, pc, image_paths, k, hog_data, num_images, result,
                   vis_called, shown, run, prev>>
    /\ UNCHANGED svars

\* demo.py:92, the ValueError of calculate_similarity leaves
\* find_most_similar_images and main
CompareRaise ==
    /\ pc = "search"
    /\ todo # <<>>
    /\ LET i == Head(todo)[1]
           j == Head(todo)[2]
       IN  calculate_similarity(hog_data[i].features, hog_data[j].features).raise
    /\ result' = Raised
    /\ pc' = "crashed"
    /\ UNCHANGED <<files, image_paths, k, hog_data, num_images,
                   min_similarity, most_similar_pair, todo, calls, vis_called,
                   shown, run, prev>>
    /\ UNCHANGED svars

\* demo.py:98
Return ==
    /\ pc = "search"
    /\ todo = <<>>
    /\ result' = [kind |-> "tuple", min |-> min_similarity,
                  pair |-> most_similar_pair]
    /\ pc' = "main"
    /\ UNCHANGED <<files, image_paths, k, hog_data, num_images,
                   min_similarity, most_similar_pair, todo, calls, vis_called,
                   shown, run, prev>>
    /\ UNCHANGED svars

\* demo.py:149, results is None
MainSkip ==
    /\ pc = "main"
    /\ ~Truthy(result)
    /\ pc' = "done"
    /\ UNCHANGED <<files, image_paths, k, hog_data, num_images,
                   min_similarity, most_similar_pair, todo, calls, result,
                   vis_called, shown, run, prev>>
    /\ UNCHANGED svars

\* demo.py:149-151 and visualize_results, demo.py:104-112
MainVisualize ==
    /\ pc = "main"
    /\ Truthy(result)
    /\ vis_called' = TRUE
    /\ shown' = IF result.pair = None THEN <<>>
                ELSE <<hog_data[result.pair[1]].path,
                       hog_data[result.pair[2]].path>>
    /\ pc' = "done"
    /\ UNCHANGED <<files, image_paths, k, hog_data, num_images,
                   min_similarity, most_similar_pair, todo, calls, result,
                   run, prev>>
    /\ UNCHANGED svars

\* main(image_dir) once more, on the same directory: the locals of the new
\* call are new, what the previous call left in memory is still there
Again ==
    /\ pc \in {"done", "crashed"}
    /\ run = 1
    /\ run' = 2
    /\ prev' = <<result, hog_data, shown>>
    /\ pc' = "listdir"
    /\ image_paths' = <<>>
    /\ k' = 0
    /\ hog_data' = <<>>
    /\ num_images' = 0
    /\ most_similar_pair' = None
    /\ todo' = <<>>
    /\ calls' = <<>>
    /\ result' = Pending
    /\ vis_called' = FALSE
    /\ shown' = <<>>
    /\ UNCHANGED <<files, min_similarity>>
    /\ UNCHANGED svars

Next ==
    \/ ListDirEmpty
    \/ ListDir
    \/ LoadSkip
    \/ LoadAppend
    \/ LoadRaise
    \/ TooFew
    \/ StartSearch
    \/ Compare
    \/ CompareRaise
    \/ Return
    \/ MainSkip
    \/ MainVisualize

Spec == Init /\ [][Next]_vars

NextTwice == Next \/ Again

SpecTwice == Init /\ [][NextTwice]_vars

-----------------------------------------------------------------------------
(* src/scrap_ld_snapshot.py                                                *)

\* The characters of a URL: the separator and two others.
Chars == {"/", "r", "s"}

\* The strings a .webloc file may hold under its URL key, '' included.
Urls == SeqsOf(Chars, 0, MaxLinkLen)

\* One entry of the folder: a name that does not end in ".webloc", or a
\* .webloc file: a property list with a URL, a property list without the URL
\* key (KeyError), a file plistlib cannot parse (InvalidFileException), or a
\* file gone when it is opened (FileNotFoundError).
FolderEntries ==
    [webloc : {FALSE}, content : {"url"}, url : {<<>>}]
        \cup [webloc : {TRUE}, content : {"nokey", "badplist", "missing"}, url : {<<>>}]
        \cup [webloc : {TRUE}, content : {"url"}, url : Urls]

\* The exception raised inside the try of extract_link_from_webloc.
RaisedBy(e) ==
    CASE e.content = "nokey"    -> "KeyError"
      [] e.content = "badplist" -> "InvalidFileException"
      [] e.content = "missing"  -> "FileNotFoundError"
      [] OTHER                  -> "none"

\* The names the standard library's plistlib module defines.
PlistlibNames ==
    {"load", "loads", "dump", "dumps", "UID", "FMT_XML", "FMT_BINARY",
     "InvalidFileException"}

\* The names of the except clause, scrap_ld_snapshot.py:30.  Python
\* evaluates the tuple when an exception reaches the clause: looking up a
\* name plistlib does not define is an AttributeError, raised in place of
\* the handler.
ExceptClause == {"InvalidPlistException", "KeyError", "FileNotFoundError"}

Caught(exc) == "InvalidPlistException" \in PlistlibNames /\ exc \in ExceptClause

\* extract_link_from_webloc: the URL, None (<<>>) after a caught exception,
\* or an exception that leaves the function.
extract_link_from_webloc(e) ==
    IF RaisedBy(e) = "none" THEN [raise |-> FALSE, val |-> e.url]
    ELSE IF Caught(RaisedBy(e)) THEN [raise |-> FALSE, val |-> <<>>]
    ELSE [raise |-> TRUE, val |-> <<>>]

\* `if link`, scrap_ld_snapshot.py:49: None and '' are false
LinkTruthy(link) == link # <<>>

\* str.split('/')
RECURSIVE Split(_)
Split(s) ==
    IF \A n \in 1..Len(s) : s[n] # "/" THEN <<s>>
    ELSE LET i == CHOOSE n \in 1..Len(s) :
                      s[n] = "/" /\ \A m \in 1..(n - 1) : s[m] # "/"
         IN  <<SubSeq(s, 1, i - 1)>> \o Split(SubSeq(s, i + 1, Len(s)))

\* link.split('/')[-1], scrap_ld_snapshot.py:74
variant_id(link) == Split(link)[Len(Split(link))]

\* f"{variant_id}.png", scrap_ld_snapshot.py:75
ScreenshotName(link) == variant_id(link) \o <<".png">>

NoDemo ==
    /\ files = <<>> /\ pc = "off" /\ image_paths = <<>> /\ k = 0
    /\ hog_data = <<>> /\ num_images = 0 /\ min_similarity = Inf
    /\ most_similar_pair = None /\ todo = <<>> /\ calls = <<>>
    /\ result = Pending /\ vis_called = FALSE /\ shown = <<>>
    /\ run = 1 /\ prev = <<>>

\* scrap_ld_snapshot.py:100-101 and 44: the browser is open, no link read
InitScrap ==
    /\ folder \in SeqsOf(FolderEntries, 0, MaxFolder)
    /\ spc = "read"
    /\ fidx = 1
    /\ links = <<>>
    /\ lidx = 0
    /\ attempts = <<>>
    /\ shots = <<>>
    /\ browser = "open"
    /\ NoDemo

\* scrap_ld_snapshot.py:45-46, a name that does not end in ".webloc"
ReadSkip ==
    /\ spc = "read"
    /\ fidx <= Len(folder)
    /\ ~folder[fidx].webloc
    /\ fidx' = fidx + 1
    /\ UNCHANGED <<folder, spc, links, lidx, attempts, shots, browser>>
    /\ UNCHANGED dvars

\* scrap_ld_snapshot.py:46-50
ReadAppend ==
    /\ spc = "read"
    /\ fidx <= Len(folder)
    /\ folder[fidx].webloc
    /\ ~extract_link_from_webloc(folder[fidx]).raise
    /\ LinkTruthy(extract_link_from_webloc(folder[fidx]).val)
    /\ links' = Append(links, extract_link_from_webloc(folder[fidx]).val)
    /\ fidx' = fidx + 1
    /\ UNCHANGED <<folder, spc, lidx, attempts, shots, browser>>
    /\ UNCHANGED dvars

\* scrap_ld_snapshot.py:46-49, no link to append
ReadNoLink ==
    /\ spc = "read"
    /\ fidx <= Len(folder)
    /\ folder[fidx].webloc
    /\ ~extract_link_from_webloc(folder[fidx]).raise
    /\ ~LinkTruthy(extract_link_from_webloc(folder[fidx]).val)
    /\ fidx' = fidx + 1
    /\ UNCHANGED <<folder, spc, links, lidx, attempts, shots, browser>>
    /\ UNCHANGED dvars

\* scrap_ld_snapshot.py:48, an exception leaves extract_link_from_webloc,
\* extract_links_from_webloc_folder and the with block, which closes the
\* browser on its way out
ReadRaise ==
    /\ spc = "read"
    /\ fidx <= Len(folder)
    /\ folder[fidx].webloc
    /\ extract_link_from_webloc(folder[fidx]).raise
    /\ spc' = "crashed"
    /\ browser' = "closed"
    /\ UNCHANGED <<folder, fidx, links, lidx, attempts, shots>>
    /\ UNCHANGED dvars

\* scrap_ld_snapshot.py:51 and 101-102
ReadDone ==
    /\ spc = "read"
    /\ fidx > Len(folder)
    /\ spc' = "snap"
    /\ lidx' = 1
    /\ UNCHANGED <<folder, fidx, links, attempts, shots, browser>>
    /\ UNCHANGED dvars

\* get_ld_snapshot, scrap_ld_snapshot.py:61-75: the page is reached and the
\* screenshot saved
SnapshotSaved ==
    /\ spc = "snap"
    /\ lidx <= Len(links)
    /\ attempts' = Append(attempts, links[lidx])
    /\ shots' = Append(shots, [link |-> links[lidx],
                               file |-> ScreenshotName(links[lidx])])
    /\ lidx' = lidx + 1
    /\ UNCHANGED <<folder, spc, fidx, links, browser>>
    /\ UNCHANGED dvars

\* get_ld_snapshot, scrap_ld_snapshot.py:61-81: a step of the try raises,
\* `except Exception` prints it
SnapshotFailed ==
    /\ spc = "snap"
    /\ lidx <= Len(links)
    /\ attempts' = Append(attempts, links[lidx])
    /\ lidx' = lidx + 1
    /\ UNCHANGED <<folder, spc, fidx, links, shots, browser>>
    /\ UNCHANGED dvars

\* scrap_ld_snapshot.py:105 and the end of the with block
Finish ==
    /\ spc = "snap"
    /\ lidx > Len(links)
    /\ spc' = "done"
    /\ browser' = "closed"
    /\ UNCHANGED <<folder, fidx, links, lidx, attempts, shots>>
    /\ UNCHANGED dvars

NextScrap ==
    \/ ReadSkip
    \/ ReadAppend
    \/ ReadNoLink
    \/ ReadRaise
    \/ ReadDone
    \/ SnapshotSaved
    \/ SnapshotFailed
    \/ Finish

SpecScrap == InitScrap /\ [][NextScrap]_vars

-----------------------------------------------------------------------------
(* Properties of src/demo.py                                               *)

\* find_most_similar_images has ended: returned to main, or raised
Ended == pc \in {"main", "done", "crashed"}

Returned == pc \in {"main", "done"}

N == Len(hog_data)

\* All loaded items have feature vectors of one length.
SameDim == \A a, b \in 1..N : Len(hog_data[a].features) = Len(hog_data[b].features)

\* The reference distance of two vectors of the same length, written
\* independently of calculate_similarity.
RefDist(u, v) ==
    LET sq[n \in 0..Len(u)] ==
            IF n = 0 THEN 0 ELSE sq[n - 1] + (u[n] - v[n]) * (u[n] - v[n])
    IN  CHOOSE r \in 0..(10 * sq[Len(u)]) :
            r * r <= 100 * sq[Len(u)] /\ (r + 1) * (r + 1) > 100 * sq[Len(u)]

UnorderedPairs == {p \in (1..N) \X (1..N) : p[1] < p[2]}

RefDistances ==
    {RefDist(hog_data[p[1]].features, hog_data[p[2]].features) : p \in UnorderedPairs}

\* The distance the code computes for the items at positions a and b.
Dist(a, b) == calculate_similarity(hog_data[a].features, hog_data[b].features).val

\* (a, b) comes before (i, j) in the lexicographic order of index pairs.
LexBefore(a, b, i, j) == a < i \/ (a = i /\ b < j)

\* C1: a search over N >= 2 loaded items of one dimension returns the minimum
\* of the reference distance over all unordered pairs, and a pair of two
\* distinct valid indices whose distance is that minimum.
C1_MinOverAllPairs ==
    (Returned /\ result.kind = "tuple" /\ SameDim) =>
        /\ N >= 2
        /\ result.pair # None
        /\ result.pair[1] \in 1..N
        /\ result.pair[2] \in 1..N
        /\ result.pair[1] # result.pair[2]
        /\ result.min \in RefDistances
        /\ \A d \in RefDistances : result.min <= d
        /\ RefDist(hog_data[result.pair[1]].features,
                   hog_data[result.pair[2]].features) = result.min

\* The minimum is reached by the last pair only, among three items.
C1_Witness ==
    /\ pc = "done" /\ result.kind = "tuple" /\ SameDim /\ N = 3
    /\ Len(hog_data[1].features) = 2
    /\ result.pair = <<1, 3>>
    /\ Dist(1, 2) > result.min
    /\ Dist(2, 3) > result.min

\* The images of the directory that load.
ValidFiles == {n \in 1..Len(files) : files[n].kind = "ok"}

\* C2: with fewer than 2 items available for comparison the call returns
\* None, never crashes, never compares, and main visualizes nothing.
C2_InsufficientItemsNoResult ==
    (Cardinality(ValidFiles) < 2) =>
        /\ pc \notin {"search", "crashed"}
        /\ Returned => result.kind = "None"
        /\ ~vis_called
        /\ shown = <<>>

\* C3: among the pairs of minimum distance the returned one is the first in
\* the lexicographic enumeration: every pair before it is strictly farther.
C3_FirstOfTies ==
    (Returned /\ result.kind = "tuple") =>
        /\ result.pair # None
        /\ \A p \in UnorderedPairs :
              /\ Dist(p[1], p[2]) >= result.min
              /\ LexBefore(p[1], p[2], result.pair[1], result.pair[2])
                     => Dist(p[1], p[2]) > result.min

\* A pair after the returned one has the same distance.
C3_Witness ==
    /\ pc = "done" /\ result.kind = "tuple" /\ N = 3 /\ SameDim
    /\ result.pair = <<1, 2>>
    /\ result.min > 0
    /\ Dist(1, 3) = result.min
    /\ Dist(2, 3) > result.min

\* C4: two vectors of different lengths are never given a distance: the
\* search raises when it reaches that pair and returns no pair.
C4_MismatchAlwaysRaises ==
    /\ \A n \in 1..Len(calls) :
          Len(hog_data[calls[n][1]].features) = Len(hog_data[calls[n][2]].features)
    /\ (Returned /\ result.kind = "tuple") => SameDim

\* C5: a second call on the same directory ends as the first did: the same
\* outcome, distance and pair, over the same item list.
C5_Deterministic ==
    (run = 2 /\ pc \in {"done", "crashed"}) => prev = <<result, hog_data, shown>>

\* Both calls compared three items and found the last pair.
C5_Witness ==
    /\ run = 2 /\ pc = "done" /\ result.kind = "tuple" /\ N = 3
    /\ result.pair = <<2, 3>>

\* C6: a completed search has called calculate_similarity exactly once for
\* every unordered pair of distinct items: N*(N-1)/2 calls, none for (i, i),
\* never both (i, j) and (j, i).
C6_EachPairOnce ==
    /\ \A n \in 1..Len(calls) : calls[n][1] # calls[n][2]
    /\ \A m, n \in 1..Len(calls) :
          m # n => {calls[m][1], calls[m][2]} # {calls[n][1], calls[n][2]}
    /\ (Returned /\ result.kind = "tuple") =>
          /\ N >= 2
          /\ Len(calls) = (N * (N - 1)) \div 2
          /\ \A p \in UnorderedPairs : \E n \in 1..Len(calls) : calls[n] = p

\* Three items, three calls.
C6_Witness ==
    /\ pc = "done" /\ result.kind = "tuple" /\ N = 3 /\ Len(calls) = 3

\* A file the loop has gone through failed to load or to be processed.
SomeFileFailed ==
    \E n \in 1..Len(image_paths) : files[image_paths[n]].kind \in {"notfound", "error"}

\* C7: when loading or processing of a file fails the call ends by
\* returning None, not by raising and not with a result tuple.
C7_FailureReturnsNone ==
    (Ended /\ SomeFileFailed) => result.kind = "None"

\* The paths of the images among the first n image paths, in order.
RECURSIVE LoadedPaths(_)
LoadedPaths(n) ==
    IF n = 0 THEN <<>>
    ELSE LoadedPaths(n - 1) \o
             (IF files[image_paths[n]].kind = "ok" THEN <<image_paths[n]>> ELSE <<>>)

\* C8: an item that fails to load has no entry in the item list, is not
\* counted in N, is in no distance evaluation, and the indices of the
\* returned pair are positions of the filtered item list, whose entries keep
\* their own path.
C8_FailedItemsFilteredOut ==
    /\ \A n \in 1..N : files[hog_data[n].path].kind = "ok"
    /\ k >= 1 => [n \in 1..N |-> hog_data[n].path] = LoadedPaths(k - 1)
    /\ pc \in {"search", "main", "done"} /\ k >= 1 =>
          num_images = Cardinality(ValidFiles)
    /\ \A n \in 1..Len(calls) : calls[n][1] \in 1..N /\ calls[n][2] \in 1..N
    /\ (Returned /\ result.kind = "tuple") =>
          /\ result.pair[1] \in 1..N /\ result.pair[2] \in 1..N
          /\ pc = "done" =>
                shown = <<hog_data[result.pair[1]].path, hog_data[result.pair[2]].path>>

\* The first file is gone when it is read; the pair found is (0, 1) of the
\* filtered list, which are the second and third paths of the directory.
C8_Witness ==
    /\ pc = "done" /\ result.kind = "tuple"
    /\ Len(files) = 3 /\ files[1].kind = "notfound"
    /\ result.pair = <<1, 2>>
    /\ shown = <<2, 3>>

-----------------------------------------------------------------------------
(* Properties of src/scrap_ld_snapshot.py                                  *)

\* The link without its trailing '/', if it has one.
WithoutTrailingSlash(link) ==
    IF link # <<>> /\ link[Len(link)] = "/"
    THEN SubSeq(link, 1, Len(link) - 1) ELSE link

\* The variant ID of a link: the segment that ends it, before a trailing '/'.
IdOf(link) == variant_id(WithoutTrailingSlash(link))

\* C9: a link ending in '<id>' and the same link ending in '<id>/' both give
\* the screenshot '<id>.png'; the ID is not the empty string.
C9_ScreenshotNamedAfterId ==
    \A n \in 1..Len(shots) :
        IdOf(shots[n].link) # <<>> =>
            /\ shots[n].file = IdOf(shots[n].link) \o <<".png">>
            /\ shots[n].file # <<".png">>

\* The links of the .webloc files that hold one, among the first n entries.
RECURSIVE LinksOf(_)
LinksOf(n) ==
    IF n = 0 THEN <<>>
    ELSE LinksOf(n - 1) \o
             (IF folder[n].webloc /\ folder[n].content = "url" /\ folder[n].url # <<>>
              THEN <<folder[n].url>> ELSE <<>>)

\* C10: a failure with one item never stops the run: a .webloc file without
\* a usable URL adds no link and the files after it are read, and every
\* link is tried once, in order, before the browser is closed.
C10_RunNeverStops ==
    /\ spc # "crashed"
    /\ spc = "read" => links = LinksOf(fidx - 1)
    /\ spc \in {"snap", "done"} => links = LinksOf(Len(folder))
    /\ spc = "snap" => attempts = SubSeq(links, 1, lidx - 1)
    /\ spc = "done" => attempts = links
    /\ browser = "closed" => spc = "done"

=============================================================================
